---- MODULE Spec2Model ----
(***************************************************************************)
(* A model of the yagabor Game Boy emulator core: the LCD mode state       *)
(* machine (src/src/gameboy/io/lcd.rs), the early CPU and its MemoryBus    *)
(* (src/src/cpu.rs), and the interrupt controller and stack as the         *)
(* specification describes them.                                           *)
(***************************************************************************)
EXTENDS Integers, Sequences, FiniteSets, TLC

VARIABLES
    lcd,         \* struct LCD (lcd.rs:47-56)
    interrupts,  \* gb.io.interrupts: enable, request, master-enable
    cpu,         \* struct CPU without its bus: regs, sp, pc (cpu.rs:11-33)
    memory,      \* MemoryBus.memory, the bytes that differ from 0 (cpu.rs:35-37)
    fault,       \* the panic that ended the program, or NoFault
    build,       \* "debug" (overflow checks on) or "release" (wrapping)
    obs          \* observer: what the last operation was and what it did

vars == <<lcd, interrupts, cpu, memory, fault, build, obs>>

(***************************************************************************)
(* Machine integers                                                        *)
(***************************************************************************)
U8 == 256
U16 == 65536

Byte == 0..255

Bit(byte, n) == (byte \div (2 ^ n)) % 2 = 1

Min(x, y) == IF x < y THEN x ELSE y

Builds == {"debug", "release"}

NoFault == [kind |-> "none", msg |-> <<>>]

Panic(kind, msg) == [kind |-> kind, msg |-> msg]

Running == fault.kind = "none"

(***************************************************************************)
(* LCD (src/src/gameboy/io/lcd.rs)                                         *)
(***************************************************************************)
SCREEN_WIDTH == 160

CLOCKS_SEARCHING_OAM == 80
CLOCKS_TRANSFERING == 172
CLOCKS_HBLANK == 204
CLOCKS_VBLANK == 456

VBLANK_FIRST_SCANLINE == 143
VBLANK_LAST_SCANLINE == 153

VRAM_BEGIN == 32768
VRAM_SIZE == 8192

LCDModes == {"SearchingOAM", "Transfering", "HBlank", "VBlank"}

\* enum ColoredPixel and its conversions to and from u8
ColoredPixels == {"White", "LightGray", "DarkGray", "Black"}

\* u8::from(ColoredPixel) numbered in the enum's declaration order
PixelToByte_declaration_order(cp) ==
    CASE cp = "White" -> 0
      [] cp = "DarkGray" -> 1
      [] cp = "LightGray" -> 2
      [] cp = "Black" -> 3

PixelToByte(cp) ==
    CASE cp = "White" -> 0
      [] cp = "LightGray" -> 1
      [] cp = "DarkGray" -> 2
      [] cp = "Black" -> 3

PixelFromByte(byte) ==
    IF byte % 4 = 0 THEN "White"
    ELSE IF byte % 4 = 1 THEN "LightGray"
    ELSE IF byte % 4 = 2 THEN "DarkGray"
    ELSE "Black"

\* struct Palette and its conversions to and from u8
PaletteFromByte(byte) ==
    [index0 |-> PixelFromByte(byte),
     index1 |-> PixelFromByte(byte \div 4),
     index2 |-> PixelFromByte(byte \div 16),
     index3 |-> PixelFromByte(byte \div 64)]

PaletteToByte(p) ==
    \* the shifted fields do not overlap, so the bitwise or is their sum
    (PixelToByte(p.index3) * 64 + PixelToByte(p.index2) * 16
        + PixelToByte(p.index1) * 4 + PixelToByte(p.index0)) % U8

PaletteApply(p, v) ==
    CASE v = 0 -> p.index0
      [] v = 1 -> p.index1
      [] v = 2 -> p.index2
      [] v = 3 -> p.index3

\* LCD::new. screenbuffer holds the entries written since BLACK_FRAME.
LCD_new ==
    [control |-> 0, clock |-> 0, mode |-> "SearchingOAM", scanline |-> 0,
     scy |-> 0, scx |-> 0, bgpalette |-> PaletteFromByte(0),
     screenbuffer |-> <<>>]

\* Interrupts as the LCD sees them: the request register's VBlank bit.
Interrupts_new == [enable |-> 0, request |-> 0, master |-> FALSE]

InterruptBit(i) ==
    CASE i = "VBlank" -> 0
      [] i = "LCDStat" -> 1
      [] i = "Timer" -> 2
      [] i = "Serial" -> 3
      [] i = "Joypad" -> 4

SetBit(byte, n) == IF Bit(byte, n) THEN byte ELSE byte + 2 ^ n

ClearBit(byte, n) == IF Bit(byte, n) THEN byte - 2 ^ n ELSE byte

\* A GameBoy aggregate as the LCD's functions take it (gb: &mut GameBoy).
GB == [lcd |-> lcd, interrupts |-> interrupts, fault |-> fault]

Faulted(gb) == gb.fault.kind # "none"

\* Interrupts::turnon(gb, interruption)
Interrupts_turnon(gb, i) ==
    [gb EXCEPT !.interrupts.request = SetBit(@, InterruptBit(i))]

LCD_mode(gb) == gb.lcd.mode

LCD_clock(gb) == gb.lcd.clock

\* reset_clock leaving the counter as it is: the cycles are carried over
LCD_reset_clock_keep(gb) == gb

LCD_reset_clock(gb) == [gb EXCEPT !.lcd.clock = 0]

LCD_start_mode(gb, m) == [gb EXCEPT !.lcd.mode = m]

\* gb.io.lcd.scanline += 1 on a u8: the overflow check of a debug build
\* panics, a release build wraps.
LCD_next_scanline(gb) ==
    IF gb.lcd.scanline + 1 < U8
    THEN [gb EXCEPT !.lcd.scanline = @ + 1]
    ELSE IF build = "debug"
         THEN [gb EXCEPT !.fault = Panic("overflow", <<>>)]
         ELSE [gb EXCEPT !.lcd.scanline = 0]

LCD_read_scanline(gb) == gb.lcd.scanline

LCD_reset_scanline(gb) == [gb EXCEPT !.lcd.scanline = 0]

LCD_read_control(gb, parameter) ==
    CASE parameter = "Power" -> Bit(gb.lcd.control, 7)
      [] parameter = "WindowTileMap" -> Bit(gb.lcd.control, 6)
      [] parameter = "WindowEnable" -> Bit(gb.lcd.control, 5)
      [] parameter = "BGandWindowTileSet" -> Bit(gb.lcd.control, 4)
      [] parameter = "BGTileMap" -> Bit(gb.lcd.control, 3)
      [] parameter = "SpriteSize" -> Bit(gb.lcd.control, 2)
      [] parameter = "SpritesEnabled" -> Bit(gb.lcd.control, 1)
      [] parameter = "BGEnabled" -> Bit(gb.lcd.control, 0)

LCD_background_tile_map(gb) ==
    IF LCD_read_control(gb, "BGTileMap") THEN 39936 ELSE 38912

\* the addresses of the LCD's registers
LCD_CONTROL_ADDRESS == 65344
LCD_STATUS_ADDRESS == 65345
LCD_SCY_ADDRESS == 65346
LCD_SCX_ADDRESS == 65347
LCD_LY_ADDRESS == 65348
LCD_BGPALETTE_ADDRESS == 65351
LCD_WX_ADDRESS == 65355

\* LCD::read_byte
LCD_read_byte(gb, address) ==
    CASE address = LCD_LY_ADDRESS -> gb.lcd.scanline
      [] address = LCD_SCY_ADDRESS -> gb.lcd.scy
      [] address = LCD_SCX_ADDRESS -> gb.lcd.scx
      [] address = LCD_CONTROL_ADDRESS -> gb.lcd.control
      [] address = LCD_BGPALETTE_ADDRESS -> PaletteToByte(gb.lcd.bgpalette)
      [] OTHER -> 0

\* write_byte with the arms of SCY and SCX exchanged
LCD_write_byte_scroll_swapped(gb, address, value) ==
    CASE address = LCD_LY_ADDRESS -> [gb EXCEPT !.lcd.scanline = value]
      [] address = LCD_SCY_ADDRESS -> [gb EXCEPT !.lcd.scx = value]
      [] address = LCD_SCX_ADDRESS -> [gb EXCEPT !.lcd.scy = value]
      [] address = LCD_CONTROL_ADDRESS -> [gb EXCEPT !.lcd.control = value]
      [] address = LCD_BGPALETTE_ADDRESS ->
            [gb EXCEPT !.lcd.bgpalette = PaletteFromByte(value)]
      [] OTHER -> gb

\* LCD::write_byte
LCD_write_byte(gb, address, value) ==
    CASE address = LCD_LY_ADDRESS -> [gb EXCEPT !.lcd.scanline = value]
      [] address = LCD_SCY_ADDRESS -> [gb EXCEPT !.lcd.scy = value]
      [] address = LCD_SCX_ADDRESS -> [gb EXCEPT !.lcd.scx = value]
      [] address = LCD_CONTROL_ADDRESS -> [gb EXCEPT !.lcd.control = value]
      [] address = LCD_BGPALETTE_ADDRESS ->
            [gb EXCEPT !.lcd.bgpalette = PaletteFromByte(value)]
      [] OTHER -> gb

\* The PPU's video RAM and decoded tile cache (gb.ppu.vram, gb.ppu.tile_set),
\* read-only for the LCD: a fixed pattern stands for their contents.
PPU_vram(i) == ((i * 7) + (i \div 32) + 3) % U8

PPU_tile_set(tile, row, col) == (tile + row + col) % 4

\* lcd.screenbuffer[offset]; entries equal to BLACK_FRAME's are not kept
BufferRead(buf, offset) ==
    IF offset \in DOMAIN buf THEN buf[offset] ELSE "DarkGray"

\* tile_x_index and pixel_x_index at the start of iteration line_x of
\* render_scanline's loop, from their values before the loop: pixel_x_index
\* counts modulo 8, and tile_x_index is increased whenever pixel_x_index
\* returns to 0
Loop_tile_x_index(tile_x_index, pixel_x_index, line_x) ==
    tile_x_index + ((pixel_x_index + line_x) \div 8)

Loop_pixel_x_index(pixel_x_index, line_x) == (pixel_x_index + line_x) % 8

\* render_scanline's for line_x in 0..SCREEN_WIDTH loop: each iteration reads
\* ppu.vram (bounds-checked), and writes one entry of the screen buffer; an
\* index outside the video RAM ends the loop in a panic, with the entries
\* written before it left in place
RenderLoop(gb, tile_map_offset, row_y_offset, tile_x_index, pixel_x_index, canvas_buffer_offset) ==
    LET vram_index(line_x) ==
            tile_map_offset + Loop_tile_x_index(tile_x_index, pixel_x_index, line_x)
        outside == {line_x \in 0..(SCREEN_WIDTH - 1) : vram_index(line_x) >= VRAM_SIZE}
        stop == IF outside = {} THEN SCREEN_WIDTH
                ELSE CHOOSE x \in outside : \A y \in outside : x <= y
        color(line_x) ==
            PaletteApply(gb.lcd.bgpalette,
                         PPU_tile_set(PPU_vram(vram_index(line_x)), row_y_offset,
                                      Loop_pixel_x_index(pixel_x_index, line_x)))
        row == canvas_buffer_offset..(canvas_buffer_offset + stop - 1)
        kept == {i \in row : color(i - canvas_buffer_offset) # "DarkGray"}
        buffer == [i \in ((DOMAIN gb.lcd.screenbuffer) \ row) \cup kept |->
                      IF i \in row THEN color(i - canvas_buffer_offset)
                      ELSE gb.lcd.screenbuffer[i]]
    IN IF outside = {} THEN [gb EXCEPT !.lcd.screenbuffer = buffer]
       ELSE [gb EXCEPT !.lcd.screenbuffer = buffer,
                       !.fault = Panic("bounds", <<vram_index(stop)>>)]

\* render_scanline without the test of BGEnabled
LCD_render_scanline_always(gb) ==
    LET background_tile_map == LCD_background_tile_map(gb)
        tile_x_index == gb.lcd.scx \div 8
        tile_y_index == (gb.lcd.scanline + gb.lcd.scy) % U8
        tile_offset == (tile_y_index \div 8) * 32
        tile_map_begin == background_tile_map - VRAM_BEGIN
        tile_map_offset == tile_map_begin + tile_offset
        row_y_offset == tile_y_index % 8
        pixel_x_index == gb.lcd.scx % 8
        canvas_buffer_offset == gb.lcd.scanline * SCREEN_WIDTH
    IN RenderLoop(gb, tile_map_offset, row_y_offset, tile_x_index, pixel_x_index,
                    canvas_buffer_offset)

LCD_render_scanline(gb) ==
    LET bgenabled == LCD_read_control(gb, "BGEnabled")
        background_tile_map == LCD_background_tile_map(gb)
    IN IF bgenabled
       THEN LET tile_x_index == gb.lcd.scx \div 8
                tile_y_index == (gb.lcd.scanline + gb.lcd.scy) % U8
                tile_offset == (tile_y_index \div 8) * 32
                tile_map_begin == background_tile_map - VRAM_BEGIN
                tile_map_offset == tile_map_begin + tile_offset
                row_y_offset == tile_y_index % 8
                pixel_x_index == gb.lcd.scx % 8
                canvas_buffer_offset == gb.lcd.scanline * SCREEN_WIDTH
            IN RenderLoop(gb, tile_map_offset, row_y_offset, tile_x_index, pixel_x_index,
                    canvas_buffer_offset)
       ELSE gb

\* LCD::tick, one operator per arm of its match on the mode; gb already has
\* the cycles added to its clock.
tick_SearchingOAM(gb) ==
    IF LCD_clock(gb) >= CLOCKS_SEARCHING_OAM
    THEN LCD_start_mode(LCD_reset_clock(gb), "Transfering")
    ELSE gb

\* tick's Transfering arm also advancing the scanline
tick_Transfering_next_line(gb) ==
    IF LCD_clock(gb) >= CLOCKS_TRANSFERING
    THEN LCD_next_scanline(LCD_render_scanline(LCD_start_mode(LCD_reset_clock(gb), "HBlank")))
    ELSE gb

tick_Transfering(gb) ==
    IF LCD_clock(gb) >= CLOCKS_TRANSFERING
    THEN LCD_render_scanline(LCD_start_mode(LCD_reset_clock(gb), "HBlank"))
    ELSE gb

\* tick's HBlank arm with > for >= : the period ends one cycle late
tick_HBlank_late(gb) ==
    IF LCD_clock(gb) > CLOCKS_HBLANK
    THEN LET next == LCD_next_scanline(LCD_reset_clock(gb))
         IN IF Faulted(next) THEN next
            ELSE IF LCD_read_scanline(next) = VBLANK_FIRST_SCANLINE
            THEN LCD_start_mode(Interrupts_turnon(next, "VBlank"), "VBlank")
            ELSE LCD_start_mode(next, "SearchingOAM")
    ELSE gb

\* tick's HBlank arm entering VBlank without raising the request
tick_HBlank_no_request(gb) ==
    IF LCD_clock(gb) >= CLOCKS_HBLANK
    THEN LET next == LCD_next_scanline(LCD_reset_clock(gb))
         IN IF Faulted(next) THEN next
            ELSE IF LCD_read_scanline(next) = VBLANK_FIRST_SCANLINE
            THEN LCD_start_mode(next, "VBlank")
            ELSE LCD_start_mode(next, "SearchingOAM")
    ELSE gb

tick_HBlank(gb) ==
    IF LCD_clock(gb) >= CLOCKS_HBLANK
    THEN LET next == LCD_next_scanline(LCD_reset_clock(gb))
         IN IF Faulted(next) THEN next
            ELSE IF LCD_read_scanline(next) = VBLANK_FIRST_SCANLINE
            THEN LCD_start_mode(Interrupts_turnon(next, "VBlank"), "VBlank")
            ELSE LCD_start_mode(next, "SearchingOAM")
    ELSE gb

\* tick's VBlank arm with >= for > : the scanline is reset one line early
tick_VBlank_early(gb) ==
    IF LCD_clock(gb) >= CLOCKS_VBLANK
    THEN LET next == LCD_next_scanline(LCD_reset_clock(gb))
         IN IF Faulted(next) THEN next
            ELSE IF LCD_read_scanline(next) >= VBLANK_LAST_SCANLINE
            THEN LCD_reset_scanline(LCD_start_mode(next, "SearchingOAM"))
            ELSE next
    ELSE gb

\* tick's VBlank arm with > for >= : a period of VBlank ends one cycle late
tick_VBlank_late(gb) ==
    IF LCD_clock(gb) > CLOCKS_VBLANK
    THEN LET next == LCD_next_scanline(LCD_reset_clock(gb))
         IN IF Faulted(next) THEN next
            ELSE IF LCD_read_scanline(next) > VBLANK_LAST_SCANLINE
            THEN LCD_reset_scanline(LCD_start_mode(next, "SearchingOAM"))
            ELSE next
    ELSE gb

tick_VBlank(gb) ==
    IF LCD_clock(gb) >= CLOCKS_VBLANK
    THEN LET next == LCD_next_scanline(LCD_reset_clock(gb))
         IN IF Faulted(next) THEN next
            ELSE IF LCD_read_scanline(next) > VBLANK_LAST_SCANLINE
            THEN LCD_reset_scanline(LCD_start_mode(next, "SearchingOAM"))
            ELSE next
    ELSE gb

LCD_tick(gb, cycles) ==
    LET added == [gb EXCEPT !.lcd.clock = (@ + cycles) % U16]
    IN CASE LCD_mode(added) = "SearchingOAM" -> tick_SearchingOAM(added)
         [] LCD_mode(added) = "Transfering" -> tick_Transfering(added)
         [] LCD_mode(added) = "HBlank" -> tick_HBlank(added)
         [] LCD_mode(added) = "VBlank" -> tick_VBlank(added)

\* The threshold of each mode's period
Threshold(m) ==
    CASE m = "SearchingOAM" -> CLOCKS_SEARCHING_OAM
      [] m = "Transfering" -> CLOCKS_TRANSFERING
      [] m = "HBlank" -> CLOCKS_HBLANK
      [] m = "VBlank" -> CLOCKS_VBLANK

(***************************************************************************)
(* CPU (src/src/cpu.rs)                                                    *)
(***************************************************************************)
FlagsRegister_new == [zero |-> FALSE, subtract |-> FALSE, half_carry |-> FALSE,
                      carry |-> FALSE]

Registers_new ==
    [a |-> 0, b |-> 0, c |-> 0, d |-> 0, e |-> 0, f |-> FlagsRegister_new,
     h |-> 0, l |-> 0]

CPU_new == [regs |-> Registers_new, sp |-> 0, pc |-> 0]

\* memory: [u8; 0xFFFF]
MEMORY_SIZE == 65535

\* The array as a function from the indices of its non-zero bytes
MemRead(mem, address) == IF address \in DOMAIN mem THEN mem[address] ELSE 0

MemWrite(mem, address, byte) ==
    IF byte = 0
    THEN [i \in (DOMAIN mem) \ {address} |-> mem[i]]
    ELSE [i \in (DOMAIN mem) \cup {address} |-> IF i = address THEN byte ELSE mem[i]]

\* A CPU with its bus, as its methods take it (&mut self)
CPU == [cpu |-> cpu, memory |-> memory, fault |-> fault]

Ok(r) == r.fault.kind = "none"

\* MemoryBus::read_byte: self.memory[address as usize], bounds-checked
MemoryBus_read_byte(c, address) ==
    IF address < MEMORY_SIZE
    THEN [fault |-> NoFault, value |-> MemRead(c.memory, address)]
    ELSE [fault |-> Panic("bus_bounds", <<address>>), value |-> 0]

\* MemoryBus::write_byte
MemoryBus_write_byte(c, address, byte) ==
    IF address < MEMORY_SIZE
    THEN [c EXCEPT !.memory = MemWrite(@, address, byte)]
    ELSE [c EXCEPT !.fault = Panic("bus_bounds", <<address>>)]

\* x + y on u16: a debug build panics on overflow, a release build wraps
CheckedAdd16(x, y) ==
    IF x + y < U16 THEN [fault |-> NoFault, value |-> x + y]
    ELSE IF build = "debug" THEN [fault |-> Panic("overflow", <<>>), value |-> 0]
    ELSE [fault |-> NoFault, value |-> (x + y) % U16]

WrappingAdd16(x, y) == (x + y) % U16

Registers_get_hl(regs) == regs.h * 256 + regs.l

\* u8::from(FlagsRegister): zero, subtract, half-carry and carry in bits 7..4
FlagsToByte(f) ==
    (IF f.zero THEN 128 ELSE 0) + (IF f.subtract THEN 64 ELSE 0)
        + (IF f.half_carry THEN 32 ELSE 0) + (IF f.carry THEN 16 ELSE 0)

\* FlagsRegister::from(u8): bits 7..4; bits 3..0 are not kept
FlagsFromByte(byte) ==
    [zero |-> Bit(byte, 7), subtract |-> Bit(byte, 6), half_carry |-> Bit(byte, 5),
     carry |-> Bit(byte, 4)]

\* get_af with the flags in bits 3..0 of the low byte
Registers_get_af_low_nibble(regs) == regs.a * 256 + FlagsToByte(regs.f) \div 16

\* Registers::get_af: A in the high byte, the flags byte in the low byte
Registers_get_af(regs) == regs.a * 256 + FlagsToByte(regs.f)

\* Registers::set_af: A from the high byte, the flags from the low byte
Registers_set_af(regs, value) ==
    [regs EXCEPT !.a = value \div 256, !.f = FlagsFromByte(value % 256)]

\* Instruction::from_byte: the opcodes the tests and execute name, NOP, and
\* one extended opcode; every other byte is a gap of the table (None).
None == [op |-> "None"]

Instruction_from_byte_not_prefixed(byte) ==
    CASE byte = 0 -> [op |-> "NOP"]
      [] byte = 128 -> [op |-> "ADD", target |-> "B"]
      [] byte = 129 -> [op |-> "ADD", target |-> "C"]
      [] byte = 136 -> [op |-> "ADC", target |-> "B"]
      [] byte = 144 -> [op |-> "SUB", target |-> "B"]
      [] byte = 152 -> [op |-> "SBC", target |-> "B"]
      [] byte = 62 -> [op |-> "LD", load_type |-> "Byte", target |-> "A", source |-> "D8"]
      [] byte = 126 -> [op |-> "LD", load_type |-> "Byte", target |-> "A", source |-> "HLI"]
      [] byte = 119 -> [op |-> "LD", load_type |-> "Byte", target |-> "HLI", source |-> "A"]
      [] byte = 54 -> [op |-> "LD", load_type |-> "Byte", target |-> "HLI", source |-> "D8"]
      [] byte = 120 -> [op |-> "LD", load_type |-> "Byte", target |-> "A", source |-> "B"]
      [] byte = 71 -> [op |-> "LD", load_type |-> "Byte", target |-> "B", source |-> "A"]
      [] byte = 1 -> [op |-> "LD", load_type |-> "Word", target |-> "BC", source |-> "D16"]
      [] byte = 195 -> [op |-> "JP", test |-> "Always"]
      [] byte = 194 -> [op |-> "JP", test |-> "NotZero"]
      [] byte = 202 -> [op |-> "JP", test |-> "Zero"]
      [] byte = 210 -> [op |-> "JP", test |-> "NotCarry"]
      [] byte = 218 -> [op |-> "JP", test |-> "Carry"]
      [] OTHER -> None

Instruction_from_byte_prefixed(byte) ==
    CASE byte = 0 -> [op |-> "RLC", target |-> "B"]
      [] OTHER -> None

Instruction_from_byte(byte, prefixed) ==
    IF prefixed THEN Instruction_from_byte_prefixed(byte)
    ELSE Instruction_from_byte_not_prefixed(byte)

\* format!("{:x}", byte): lower-case hexadecimal without padding
HexDigits == <<"0", "1", "2", "3", "4", "5", "6", "7", "8", "9", "a", "b", "c", "d", "e", "f">>

LowerHex(byte) ==
    IF byte < 16 THEN <<HexDigits[byte + 1]>>
    ELSE <<HexDigits[(byte \div 16) + 1], HexDigits[(byte % 16) + 1]>>

\* the description without the cb of an extended opcode
UnknownDescription_no_prefix(instruction_byte, prefixed) ==
    <<"0", "x">> \o LowerHex(instruction_byte)

\* format!("0x{}{:x}", if prefixed { "cb" } else { "" }, instruction_byte)
UnknownDescription(instruction_byte, prefixed) ==
    <<"0", "x">> \o (IF prefixed THEN <<"c", "b">> ELSE <<>>) \o LowerHex(instruction_byte)

\* CPU::add with a stale half-carry (the flag is not written)
CPU_add_stale_half_carry(c, value) ==
    LET sum == c.cpu.regs.a + value
        new_value == sum % U8
    IN [c |-> [c EXCEPT !.cpu.regs.f.zero = (new_value = 0),
                        !.cpu.regs.f.subtract = FALSE,
                        !.cpu.regs.f.carry = (sum >= U8)],
        value |-> new_value]

\* CPU::add: the flags of regs.a + value, and the sum
CPU_add(c, value) ==
    LET sum == c.cpu.regs.a + value
        new_value == sum % U8
        did_overflow == sum >= U8
    IN [c |-> [c EXCEPT !.cpu.regs.f.zero = (new_value = 0),
                        !.cpu.regs.f.subtract = FALSE,
                        !.cpu.regs.f.carry = did_overflow,
                        !.cpu.regs.f.half_carry =
                            ((c.cpu.regs.a % 16) + (value % 16) > 15)],
        value |-> new_value]

\* ADC of the later CPU (gameboy/cpu), of which only the tests are at hand:
\* the sum with the carry flag added in; zero from the result, subtract
\* cleared, half-carry out of bit 3 and carry out of bit 7, both with the
\* input carry.
CPU_adc(c, value) ==
    LET carry_in == IF c.cpu.regs.f.carry THEN 1 ELSE 0
        sum == c.cpu.regs.a + value + carry_in
        new_value == sum % U8
    IN [c |-> [c EXCEPT !.cpu.regs.f.zero = (new_value = 0),
                        !.cpu.regs.f.subtract = FALSE,
                        !.cpu.regs.f.carry = (sum >= U8),
                        !.cpu.regs.f.half_carry =
                            ((c.cpu.regs.a % 16) + (value % 16) + carry_in > 15)],
        value |-> new_value]

\* SUB and SBC of the later CPU (gameboy/cpu), of which only the tests are at
\* hand: A less the operand and the carry-in; zero from the result, subtract
\* set, half-carry the borrow into bit 4 and carry the borrow out of bit 8,
\* both with the carry-in.
CPU_sub(c, value, carry_in) ==
    LET difference == c.cpu.regs.a - value - carry_in
        new_value == (difference + 2 * U8) % U8
    IN [c |-> [c EXCEPT !.cpu.regs.f.zero = (new_value = 0),
                        !.cpu.regs.f.subtract = TRUE,
                        !.cpu.regs.f.carry = (difference < 0),
                        !.cpu.regs.f.half_carry =
                            ((c.cpu.regs.a % 16) < (value % 16) + carry_in)],
        value |-> new_value]

\* CPU::read_next_byte: self.bus.read_byte(self.pc+1)
CPU_read_next_byte(c) ==
    LET address == CheckedAdd16(c.cpu.pc, 1)
    IN IF Ok(address) THEN MemoryBus_read_byte(c, address.value)
       ELSE [fault |-> address.fault, value |-> 0]

\* CPU::jump
CPU_jump(c, should_jump) ==
    IF should_jump
    THEN LET low_address == CheckedAdd16(c.cpu.pc, 1)
             low == IF Ok(low_address) THEN MemoryBus_read_byte(c, low_address.value)
                    ELSE [fault |-> low_address.fault, value |-> 0]
             high_address == CheckedAdd16(c.cpu.pc, 2)
             high == IF Ok(high_address) THEN MemoryBus_read_byte(c, high_address.value)
                     ELSE [fault |-> high_address.fault, value |-> 0]
         IN IF ~Ok(low) THEN low
            ELSE IF ~Ok(high) THEN high
            ELSE [fault |-> NoFault, value |-> high.value * 256 + low.value]
    ELSE [fault |-> NoFault, value |-> WrappingAdd16(c.cpu.pc, 3)]

Abort(c, f) == [c |-> [c EXCEPT !.fault = f], pc |-> c.cpu.pc]

\* CPU::execute, the ADD arm
execute_ADD(c, target) ==
    IF target = "B"
    THEN LET added == CPU_add(c, c.cpu.regs.b)
         IN [c |-> [added.c EXCEPT !.cpu.regs.a = added.value],
             pc |-> WrappingAdd16(c.cpu.pc, 1)]
    ELSE [c |-> c, pc |-> c.cpu.pc]

\* CPU::execute, the LD arm
execute_LD(c, i) ==
    IF i.load_type = "Byte"
    THEN LET source_value ==
                 CASE i.source = "A" -> [fault |-> NoFault, value |-> c.cpu.regs.a]
                   [] i.source = "D8" -> CPU_read_next_byte(c)
                   [] i.source = "HLI" ->
                        MemoryBus_read_byte(c, Registers_get_hl(c.cpu.regs))
                   [] OTHER -> [fault |-> Panic("todo", <<"sources">>), value |-> 0]
             stored ==
                 CASE i.target = "A" -> [c EXCEPT !.cpu.regs.a = source_value.value]
                   [] i.target = "HLI" ->
                        MemoryBus_write_byte(c, Registers_get_hl(c.cpu.regs),
                                             source_value.value)
                   [] OTHER -> [c EXCEPT !.fault = Panic("todo", <<"targets">>)]
         IN IF ~Ok(source_value) THEN Abort(c, source_value.fault)
            ELSE [c |-> stored,
                  pc |-> IF i.source = "D8" THEN WrappingAdd16(c.cpu.pc, 2)
                         ELSE WrappingAdd16(c.cpu.pc, 1)]
    ELSE Abort(c, Panic("todo", <<"load types">>))

\* CPU::execute, the JP arm
execute_JP(c, test) ==
    LET jump_condition ==
            CASE test = "NotZero" -> ~c.cpu.regs.f.zero
              [] test = "NotCarry" -> ~c.cpu.regs.f.carry
              [] test = "Zero" -> c.cpu.regs.f.zero
              [] test = "Carry" -> c.cpu.regs.f.carry
              [] test = "Always" -> TRUE
        target == CPU_jump(c, jump_condition)
    IN IF Ok(target) THEN [c |-> c, pc |-> target.value]
       ELSE Abort(c, target.fault)

\* CPU::execute: the CPU after the instruction and the next PC
CPU_execute(c, instruction) ==
    CASE instruction.op = "ADD" -> execute_ADD(c, instruction.target)
      [] instruction.op = "LD" -> execute_LD(c, instruction)
      [] instruction.op = "JP" -> execute_JP(c, instruction.test)
      [] OTHER -> [c |-> c, pc |-> c.cpu.pc]

\* CPU::step up to the decoding: the opcode byte and whether it is prefixed
CPU_fetch(c) ==
    LET first == MemoryBus_read_byte(c, c.cpu.pc)
        prefixed == first.value = 203
        address == CheckedAdd16(c.cpu.pc, 1)
        second == IF Ok(address) THEN MemoryBus_read_byte(c, address.value)
                  ELSE [fault |-> address.fault, value |-> 0]
    IN IF ~Ok(first) THEN [fault |-> first.fault, byte |-> 0, prefixed |-> FALSE]
       ELSE IF prefixed
       THEN [fault |-> second.fault, byte |-> second.value, prefixed |-> TRUE]
       ELSE [fault |-> NoFault, byte |-> first.value, prefixed |-> FALSE]

\* CPU::step
CPU_step(c) ==
    LET fetched == CPU_fetch(c)
        instruction == Instruction_from_byte(fetched.byte, fetched.prefixed)
        executed == CPU_execute(c, instruction)
    IN IF ~Ok(fetched) THEN [c EXCEPT !.fault = fetched.fault]
       ELSE IF instruction.op = "None"
       THEN [c EXCEPT !.fault =
                Panic("unknown_instruction",
                      UnknownDescription(fetched.byte, fetched.prefixed))]
       ELSE IF Faulted(executed.c) THEN executed.c
       ELSE [executed.c EXCEPT !.cpu.pc = executed.pc]

(***************************************************************************)
(* The LCD driven by ticks alone                                           *)
(***************************************************************************)
\* The cycle counts a tick is given: the costs of instructions (multiples of
\* 4 up to MaxInstrCycles), each mode's threshold, and two counts near the
\* top of ClockCycles (u16) that wrap the counter.
MaxInstrCycles == 24

TickCycles ==
    {c \in 1..MaxInstrCycles : c % 4 = 0}
        \cup {CLOCKS_SEARCHING_OAM, CLOCKS_TRANSFERING, CLOCKS_HBLANK, CLOCKS_VBLANK}
        \cup {U16 - 4, U16 - 1}

ObsNone == [op |-> "none"]

\* What the observer keeps of a tick: the mode it started in, the cycles
\* accumulated since that mode's period began (this tick's included, capped
\* at 2^16), whether the period ended in this tick (the mode or the scanline
\* changed), and the VBlank periods completed since VBlank was last entered.
ObserveTick(before, after, cycles) ==
    LET ticking == obs.op = "tick"
        accBefore == IF ticking /\ ~obs.ended THEN obs.acc ELSE 0
        periodsBefore == IF ticking THEN obs.periods ELSE 0
        ended == after.lcd.mode # before.lcd.mode
                    \/ after.lcd.scanline # before.lcd.scanline
    IN [op |-> "tick",
        mode |-> before.lcd.mode,
        acc |-> Min(accBefore + cycles, U16),
        ended |-> ended,
        periods |-> IF before.lcd.mode = "VBlank"
                    THEN (IF ended THEN periodsBefore + 1 ELSE periodsBefore)
                    ELSE IF after.lcd.mode = "VBlank" THEN 0 ELSE periodsBefore]

Tick(cycles) ==
    /\ Running
    /\ LET after == LCD_tick(GB, cycles)
       IN /\ lcd' = after.lcd
          /\ interrupts' = after.interrupts
          /\ fault' = after.fault
          /\ obs' = ObserveTick(GB, after, cycles)
    /\ UNCHANGED <<cpu, memory, build>>

InitLCD ==
    /\ lcd = LCD_new
    /\ interrupts = Interrupts_new
    /\ cpu = CPU_new
    /\ memory = <<>>
    /\ fault = NoFault
    /\ build \in Builds
    /\ obs = ObsNone

NextLCD == \E cycles \in TickCycles : Tick(cycles)

SpecLCD == InitLCD /\ [][NextLCD]_vars

(***************************************************************************)
(* Claims about the LCD under ticks alone (SpecLCD)                        *)
(***************************************************************************)
VBlankRequested == Bit(interrupts.request, InterruptBit("VBlank"))

\* C1: the VBlank request is raised in the tick in which the scanline
\* becomes 144: whenever the mode changes to VBlank, the scanline is 144 and
\* the request is set.
C1_VBlankEntryAt144 ==
    [][(lcd.mode # "VBlank" /\ lcd'.mode = "VBlank")
          => (lcd'.scanline = 144 /\ VBlankRequested')]_vars

\* C3: after every tick the scanline is in 0..=153, and a tick that changes
\* it either adds 1 or, exactly when it is 153 and adding 1 would exceed 153,
\* sets it back to 0.
C3_ScanlineRange ==
    /\ [](lcd.scanline \in 0..153)
    /\ [][lcd'.scanline # lcd.scanline
            => lcd'.scanline = (IF lcd.scanline = 153 THEN 0 ELSE lcd.scanline + 1)]_vars

\* a tick in VBlank at scanline 153 has set the scanline back to 0
C3_Witness ==
    /\ obs.op = "tick" /\ obs.mode = "VBlank" /\ obs.ended
    /\ lcd.mode = "SearchingOAM" /\ lcd.scanline = 0

\* C4 as stated: a mode's period ends in the first tick at which the cycles
\* accumulated since it began reach the mode's threshold, and not before.
C4_Original ==
    obs.op = "tick" => (obs.ended <=> obs.acc >= Threshold(obs.mode))

\* C4 as amended: a period never ends before the accumulated cycles reach the
\* threshold; and while the accumulated cycles are below 2^16 (no addition
\* to the 16-bit counter has wrapped) the counter equals them and the period
\* ends in the first tick at which they reach the threshold.
C4_Amended ==
    obs.op = "tick" =>
        /\ obs.ended => obs.acc >= Threshold(obs.mode)
        /\ obs.acc < U16 =>
            /\ obs.acc >= Threshold(obs.mode) => obs.ended
            /\ ~obs.ended => lcd.clock = obs.acc

\* 80, 172 and 204 cycles were applied: the tick that completed the 204
\* cycles of HBlank took the scanline to 1 and the mode to SearchingOAM
C4_Witness ==
    /\ obs.op = "tick" /\ obs.mode = "HBlank" /\ obs.ended /\ obs.acc = 204
    /\ lcd.mode = "SearchingOAM" /\ lcd.scanline = 1 /\ lcd.clock = 0

\* The modes a tick can take the LCD to from mode m (the arms of LCD::tick)
ModeEdges(m) ==
    CASE m = "SearchingOAM" -> {"Transfering"}
      [] m = "Transfering" -> {"HBlank"}
      [] m = "HBlank" -> {"SearchingOAM", "VBlank"}
      [] m = "VBlank" -> {"SearchingOAM"}

\* C19: under ticks from the initial state the mode changes only along
\* SearchingOAM -> Transfering, Transfering -> HBlank, HBlank -> SearchingOAM,
\* HBlank -> VBlank and VBlank -> SearchingOAM; the scanline changes only in
\* a tick that leaves HBlank or that completes a 456-cycle period of VBlank,
\* and the ticks SearchingOAM -> Transfering and Transfering -> HBlank leave
\* it as it is.
C19_ModeEdges ==
    [][/\ lcd'.mode # lcd.mode => lcd'.mode \in ModeEdges(lcd.mode)
       /\ lcd'.scanline # lcd.scanline =>
            \/ lcd.mode = "HBlank" /\ lcd'.mode # "HBlank"
            \/ /\ lcd.mode = "VBlank" /\ lcd'.clock = 0
               /\ obs'.mode = "VBlank" /\ obs'.acc >= CLOCKS_VBLANK
       /\ (lcd.mode \in {"SearchingOAM", "Transfering"}) =>
            lcd'.scanline = lcd.scanline]_vars

\* the tick that ended the Transfering period of scanline 142 went to HBlank
\* with the scanline still 142
C19_Witness ==
    /\ obs.op = "tick" /\ obs.mode = "Transfering" /\ obs.ended
    /\ lcd.mode = "HBlank" /\ lcd.scanline = 142

\* this tick was given `cycles`: the observer's accumulated count grew by it
TickGiven(cycles) ==
    obs'.acc = Min((IF obs.op = "tick" /\ ~obs.ended THEN obs.acc ELSE 0) + cycles, U16)

\* C20: a tick adds its cycles to the counter (modulo 2^16) and makes at most
\* one transition, whatever the cycles: the mode stays or moves along one
\* edge and the scanline moves by at most one line; and a tick that makes a
\* transition leaves the counter at exactly 0, not at the cycles in excess
\* of the threshold.
C20_OneTransition ==
    [][obs'.op = "tick" =>
        /\ lcd'.mode \in {lcd.mode} \cup ModeEdges(lcd.mode)
        /\ lcd'.scanline \in {lcd.scanline, lcd.scanline + 1, 0}
        /\ IF lcd'.mode # lcd.mode \/ lcd'.scanline # lcd.scanline
           THEN lcd'.clock = 0
           ELSE \E cycles \in TickCycles :
                    TickGiven(cycles) /\ lcd'.clock = (lcd.clock + cycles) % U16]_vars

\* one tick of 65535 cycles in SearchingOAM: the LCD is in Transfering, one
\* edge on, with the counter at 0
C20_Witness ==
    /\ obs.op = "tick" /\ obs.mode = "SearchingOAM" /\ obs.acc = U16 - 1 /\ obs.ended
    /\ lcd.mode = "Transfering" /\ lcd.clock = 0 /\ lcd.scanline = 0

\* C23: after every tick, whatever its cycles, the counter is strictly below
\* the threshold of the mode the LCD is then in (80, 172, 204, 456), and so
\* never above 455 between ticks.
C23_ClockBelowThreshold ==
    obs.op = "tick" =>
        /\ lcd.clock < Threshold(lcd.mode)
        /\ lcd.clock <= CLOCKS_VBLANK - 1

\* a tick has left the LCD in VBlank with the counter at 455, one cycle
\* short of the threshold
C23_Witness ==
    obs.op = "tick" /\ ~obs.ended /\ lcd.mode = "VBlank" /\ lcd.clock = CLOCKS_VBLANK - 1

\* C5: VBlank is entered at scanline 144 and lasts exactly 10 periods of 456
\* cycles (scanlines 144..153): the tick that leaves VBlank completes the
\* tenth period, and VBlank is never seen on a scanline below 144.
C5_VBlankTenPeriods ==
    /\ lcd.mode = "VBlank" => lcd.scanline \in 144..153
    /\ (obs.op = "tick" /\ obs.mode = "VBlank" /\ lcd.mode = "SearchingOAM")
          => obs.periods = 10

(***************************************************************************)
(* The LCD's registers read and written through the bus                    *)
(***************************************************************************)
\* 0xFF40..=0xFF4B, the addresses of the LCD's registers
LCDAddresses == LCD_CONTROL_ADDRESS..LCD_WX_ADDRESS

\* the bytes the registers hold before the write that is looked at
RegisterBytes == {0, 27}

\* LCD::write_byte(gb, address, value), for every register and every byte
WriteRegister ==
    /\ Running /\ obs.op = "none"
    /\ \E address \in LCDAddresses, value \in Byte :
          /\ lcd' = LCD_write_byte(GB, address, value).lcd
          /\ obs' = [op |-> "write", address |-> address, value |-> value]
    /\ UNCHANGED <<interrupts, cpu, memory, fault, build>>

\* LCD::read_byte(gb, address)
ReadRegister(address) ==
    /\ Running
    /\ obs' = [op |-> "read", address |-> address,
               value |-> LCD_read_byte(GB, address)]
    /\ UNCHANGED <<lcd, interrupts, cpu, memory, fault, build>>

\* an LCD whose registers a program has written
InitRegs ==
    /\ \E control \in RegisterBytes, scy \in RegisterBytes, scx \in RegisterBytes,
          scanline \in RegisterBytes, palette \in RegisterBytes :
          lcd = [LCD_new EXCEPT !.control = control, !.scy = scy, !.scx = scx,
                                !.scanline = scanline,
                                !.bgpalette = PaletteFromByte(palette)]
    /\ interrupts = Interrupts_new
    /\ cpu = CPU_new
    /\ memory = <<>>
    /\ fault = NoFault
    /\ build \in Builds
    /\ obs = ObsNone

NextRegs == WriteRegister \/ \E address \in LCDAddresses : ReadRegister(address)

SpecRegs == InitRegs /\ [][NextRegs]_vars

Shades == <<"White", "LightGray", "DarkGray", "Black">>

\* C14: the palette made from a byte b has, as index0..index3, the shades
\* coded (White 0, LightGray 1, DarkGray 2, Black 3) by the bit fields 1..0,
\* 3..2, 5..4 and 7..6 of b, and converts back to b, for every b in 0..=255.
C14_PaletteRoundTrip ==
    [][(obs'.op = "write" /\ obs'.address = LCD_BGPALETTE_ADDRESS) =>
        LET b == obs'.value
            p == lcd'.bgpalette
        IN /\ p.index0 = Shades[(b % 4) + 1]
           /\ p.index1 = Shades[((b \div 4) % 4) + 1]
           /\ p.index2 = Shades[((b \div 16) % 4) + 1]
           /\ p.index3 = Shades[((b \div 64) % 4) + 1]
           /\ PaletteToByte(p) = b]_vars

\* 0x1B was written to the background palette: Black, DarkGray, LightGray,
\* White, which converts back to 0x1B
C14_Witness ==
    /\ obs = [op |-> "write", address |-> LCD_BGPALETTE_ADDRESS, value |-> 27]
    /\ lcd.bgpalette = [index0 |-> "Black", index1 |-> "DarkGray",
                        index2 |-> "LightGray", index3 |-> "White"]
    /\ PaletteToByte(lcd.bgpalette) = 27

MappedRegisters ==
    {LCD_CONTROL_ADDRESS, LCD_SCY_ADDRESS, LCD_SCX_ADDRESS, LCD_BGPALETTE_ADDRESS}

\* C18: a byte written to 0xFF40, 0xFF42, 0xFF43 or 0xFF47 is the byte read
\* there next, for all 256 bytes; a read of 0xFF44 returns the scanline
\* counter; any other LCD address reads 0 and a write to it changes nothing
\* of the LCD; and no read changes the LCD.
C18_RegisterAccess ==
    /\ [][obs'.op = "read" =>
            /\ lcd' = lcd
            /\ (obs.op = "write" /\ obs.address = obs'.address
                    /\ obs.address \in MappedRegisters) => obs'.value = obs.value
            /\ obs'.address = LCD_LY_ADDRESS => obs'.value = lcd.scanline
            /\ obs'.address \notin MappedRegisters \cup {LCD_LY_ADDRESS}
                    => obs'.value = 0]_vars
    /\ [][obs'.op = "write" =>
            /\ obs'.address = LCD_CONTROL_ADDRESS => lcd'.control = obs'.value
            /\ obs'.address = LCD_SCY_ADDRESS => lcd'.scy = obs'.value
            /\ obs'.address = LCD_SCX_ADDRESS => lcd'.scx = obs'.value
            /\ obs'.address \notin MappedRegisters \cup {LCD_LY_ADDRESS}
                    => lcd' = lcd]_vars

\* 0x9C was written to SCX (0xFF43) of an LCD whose SCY is 0x1B and then read
\* back from it
C18_Witness ==
    /\ obs = [op |-> "read", address |-> LCD_SCX_ADDRESS, value |-> 156]
    /\ lcd.scx = 156 /\ lcd.scy = 27

(***************************************************************************)
(* Scanlines rendered by an LCD whose registers a program has set          *)
(***************************************************************************)
\* The registers at the start: the background off, on with the map at
\* 0x9800, on with the map at 0x9C00; scrolls that keep the 21 tiles of a
\* line inside a map row (0, 3, 96) and that pass its end (97, 255);
\* vertical scrolls that wrap; two palettes; three scanlines.
RenderControls == {0, 1, 9}

ScrollX == {0, 3, 96, 97, 255}

ScrollY == {0, 5, 255}

RenderPalettes == {228, 27}

RenderLines == {0, 100, 143}

\* how many scanlines are taken from Transfering to HBlank
MaxLines == 2

\* LCD::tick, counted by the lines that reached HBlank
RenderTick(cycles) ==
    /\ Running /\ obs.lines < MaxLines
    /\ LET after == LCD_tick(GB, cycles)
       IN /\ lcd' = after.lcd
          /\ interrupts' = after.interrupts
          /\ fault' = after.fault
          /\ obs' = [op |-> "tick",
                     lines |-> IF lcd.mode = "Transfering" /\ after.lcd.mode = "HBlank"
                               THEN obs.lines + 1 ELSE obs.lines]
    /\ UNCHANGED <<cpu, memory, build>>

\* LCD::write_byte(gb, LCD_CONTROL_ADDRESS, value)
WriteControl(value) ==
    /\ Running
    /\ lcd' = LCD_write_byte(GB, LCD_CONTROL_ADDRESS, value).lcd
    /\ obs' = [op |-> "control", lines |-> obs.lines]
    /\ UNCHANGED <<interrupts, cpu, memory, fault, build>>

InitRender ==
    /\ \E control \in RenderControls, scx \in ScrollX, scy \in ScrollY,
          palette \in RenderPalettes, scanline \in RenderLines :
          lcd = [LCD_new EXCEPT !.control = control, !.scx = scx, !.scy = scy,
                                !.bgpalette = PaletteFromByte(palette),
                                !.scanline = scanline]
    /\ interrupts = Interrupts_new
    /\ cpu = CPU_new
    /\ memory = <<>>
    /\ fault = NoFault
    /\ build \in Builds
    /\ obs = [op |-> "none", lines |-> 0]

NextRender ==
    \/ \E cycles \in {CLOCKS_HBLANK, CLOCKS_VBLANK} : RenderTick(cycles)
    \/ \E value \in RenderControls : WriteControl(value)

SpecRender == InitRender /\ [][NextRender]_vars

\* a tick that takes the LCD from Transfering to HBlank, or fails on the way
RenderingTick ==
    /\ obs'.op = "tick" /\ lcd.mode = "Transfering"
    /\ lcd'.mode = "HBlank" \/ fault'.kind # "none"

\* C16: with the background on, the tick that renders scanline s writes, for
\* every pixel_x in 0..160, at row s the shade the palette gives to the pixel
\* ((SCY + s) mod 8, (SCX + pixel_x) mod 8) of the tile whose index the
\* background map holds at row ((SCY + s) mod 256) / 8 and column
\* ((SCX + pixel_x) / 8) mod 32.
C16_BackgroundPixels ==
    [][(RenderingTick /\ Bit(lcd.control, 0)) =>
        /\ fault'.kind = "none"
        /\ \A pixel_x \in 0..(SCREEN_WIDTH - 1) :
              LET y == (lcd.scy + lcd.scanline) % 256
                  map_row == y \div 8
                  map_column == ((lcd.scx + pixel_x) \div 8) % 32
                  map_begin == (IF Bit(lcd.control, 3) THEN 39936 ELSE 38912) - VRAM_BEGIN
                  tile_index == PPU_vram(map_begin + map_row * 32 + map_column)
                  tile_value == PPU_tile_set(tile_index, y % 8, (lcd.scx + pixel_x) % 8)
              IN BufferRead(lcd'.screenbuffer, lcd.scanline * SCREEN_WIDTH + pixel_x)
                    = PaletteApply(lcd.bgpalette, tile_value)]_vars

\* C17: a tick with the background off leaves the screen buffer as it is;
\* a tick with it on changes entries only when it renders, and then only
\* among the 160 entries of the row of the scanline rendered.
C17_RenderFrame ==
    [][obs'.op = "tick" =>
        /\ ~Bit(lcd.control, 0) => lcd'.screenbuffer = lcd.screenbuffer
        /\ \A offset \in (DOMAIN lcd.screenbuffer) \cup (DOMAIN lcd'.screenbuffer) :
              BufferRead(lcd'.screenbuffer, offset) # BufferRead(lcd.screenbuffer, offset)
                 => /\ RenderingTick /\ Bit(lcd.control, 0)
                    /\ offset \in (lcd.scanline * SCREEN_WIDTH)
                                      ..(lcd.scanline * SCREEN_WIDTH + SCREEN_WIDTH - 1)]_vars

\* scanline 100 was rendered, the background was turned off, and the tick
\* that took scanline 101 to HBlank left the buffer with row 100 alone
C17_Witness ==
    /\ obs = [op |-> "tick", lines |-> 2]
    /\ lcd.mode = "HBlank" /\ lcd.scanline = 101 /\ ~Bit(lcd.control, 0)
    /\ lcd.screenbuffer # <<>>
    /\ DOMAIN lcd.screenbuffer \subseteq (100 * SCREEN_WIDTH)..(100 * SCREEN_WIDTH + 159)

\* C24: for every SCX, SCY, visible scanline and both tile maps, every index
\* of the video RAM that render_scanline reads (tile_map_begin +
\* (((scanline + SCY) mod 256) / 8) * 32 + tile column) lies inside the
\* selected 32 x 32 map and inside the 0x2000 bytes of video RAM: rendering
\* never reads out of bounds.
C24_VramInBounds ==
    [][(RenderingTick /\ Bit(lcd.control, 0)) =>
        /\ fault'.kind # "bounds"
        /\ \A line_x \in 0..(SCREEN_WIDTH - 1) :
              LET tile_map_begin == LCD_background_tile_map(GB) - VRAM_BEGIN
                  tile_offset == (((lcd.scanline + lcd.scy) % U8) \div 8) * 32
                  tile_x_index == Loop_tile_x_index(lcd.scx \div 8, lcd.scx % 8, line_x)
                  index == tile_map_begin + tile_offset + tile_x_index
              IN /\ index \in tile_map_begin..(tile_map_begin + (32 * 32) - 1)
                 /\ index < VRAM_SIZE]_vars

(***************************************************************************)
(* Ticks interleaved with writes of the scanline register (0xFF44)         *)
(***************************************************************************)
\* the cycles of a tick: each mode's threshold
LYCycles == {CLOCKS_SEARCHING_OAM, CLOCKS_TRANSFERING, CLOCKS_HBLANK, CLOCKS_VBLANK}

\* the bytes a program writes to 0xFF44
LYValues == {0, 142, 143, 153, 154, 200, 255}

\* LCD::tick(gb, cycles)
TickLY(cycles) ==
    /\ Running
    /\ LET after == LCD_tick(GB, cycles)
       IN /\ lcd' = after.lcd
          /\ interrupts' = after.interrupts
          /\ fault' = after.fault
    /\ obs' = [op |-> "tick"]
    /\ UNCHANGED <<cpu, memory, build>>

\* LCD::write_byte(gb, LCD_LY_ADDRESS, value)
WriteLY(value) ==
    /\ Running
    /\ lcd' = LCD_write_byte(GB, LCD_LY_ADDRESS, value).lcd
    /\ obs' = [op |-> "write"]
    /\ UNCHANGED <<interrupts, cpu, memory, fault, build>>

NextLY ==
    \/ \E cycles \in LYCycles : TickLY(cycles)
    \/ \E value \in LYValues : WriteLY(value)

SpecLY == InitLCD /\ [][NextLY]_vars

\* C25: under any interleaving of ticks and writes of any byte to 0xFF44 the
\* scanline stays in 0..=153 and the 8-bit increment of next_scanline never
\* overflows.
C25_ScanlineUnbreakable ==
    /\ lcd.scanline \in 0..153
    /\ fault.kind # "overflow"

(***************************************************************************)
(* The scanlines rendered in each frame, under ticks alone                 *)
(***************************************************************************)
\* the cycles of a tick: a count that ends every period at once, and one
\* that takes several ticks to end the periods of HBlank and VBlank
FrameCycles == {CLOCKS_TRANSFERING, CLOCKS_VBLANK}

\* LCD::tick(gb, cycles); the observer keeps the scanlines for which
\* render_scanline was called since the frame began, in the order of the
\* calls: tick calls it in its Transfering arm when the period ends, and the
\* frame begins anew when VBlank is left
TickFrame(cycles) ==
    /\ Running
    /\ LET after == LCD_tick(GB, cycles)
           before == IF obs.op = "tick" THEN obs.rendered ELSE <<>>
       IN /\ lcd' = after.lcd
          /\ interrupts' = after.interrupts
          /\ fault' = after.fault
          /\ obs' = [op |-> "tick",
                     rendered |->
                        IF lcd.mode = "Transfering" /\ after.lcd.mode = "HBlank"
                        THEN Append(before, lcd.scanline)
                        ELSE IF lcd.mode = "VBlank" /\ after.lcd.mode # "VBlank"
                        THEN <<>>
                        ELSE before]
    /\ UNCHANGED <<cpu, memory, build>>

NextFrame == \E cycles \in FrameCycles : TickFrame(cycles)

SpecFrame == InitLCD /\ [][NextFrame]_vars

\* C21: under ticks alone from LCD::new, in every frame render_scanline is
\* called exactly once for each visible scanline 0..=143, in ascending
\* order, at the Transfering -> HBlank transition of that scanline, and
\* never for a scanline >= 144: when VBlank is entered the scanlines
\* rendered in the frame are 0, 1, ..., 143, and no scanline rendered is
\* ever 144 or more.
C21_FrameRendered ==
    /\ [][(lcd.mode # "VBlank" /\ lcd'.mode = "VBlank")
            => obs'.rendered = [i \in 1..144 |-> i - 1]]_vars
    /\ [](obs.op = "tick" =>
            \A i \in DOMAIN obs.rendered : obs.rendered[i] < 144)

(***************************************************************************)
(* The CPU stepping through a boot ROM                                     *)
(***************************************************************************)
\* Boot ROMs of RomLen bytes over the opcodes and operands below: ADD A,B,
\* ADD A,C, LD A,d8, LD (HL),A, LD A,B, JP a16, JP Z,a16, the 0xCB prefix,
\* NOP (also an extended opcode), and 0xD3, 0xFE, 0xFF (gaps of both tables).
RomLen == 3

RomBytes == {0, 128, 129, 62, 119, 120, 195, 202, 203, 211, 254, 255}

Roms == [0..(RomLen - 1) -> RomBytes]

\* CPU::new(boot): boot's bytes written from address 0
LoadRom(rom) == [i \in {j \in DOMAIN rom : rom[j] # 0} |-> rom[i]]

\* the registers a test sets before it runs the CPU
SetupA == {0, 255}

SetupHL == {0, 65534, 65535}

ObserveStep(before) ==
    LET fetched == CPU_fetch(before)
    IN [op |-> "step",
        fetched |-> Ok(fetched),
        byte |-> fetched.byte,
        prefixed |-> fetched.prefixed,
        instruction |-> IF Ok(fetched)
                        THEN Instruction_from_byte(fetched.byte, fetched.prefixed)
                        ELSE None]

Step ==
    /\ Running
    /\ LET after == CPU_step(CPU)
       IN /\ cpu' = after.cpu
          /\ memory' = after.memory
          /\ fault' = after.fault
          /\ obs' = ObserveStep(CPU)
    /\ UNCHANGED <<lcd, interrupts, build>>

InitCPU ==
    /\ lcd = LCD_new
    /\ interrupts = Interrupts_new
    /\ \E rom \in Roms : memory = LoadRom(rom)
    /\ \E a \in SetupA, hl \in SetupHL, zero \in BOOLEAN :
          cpu = [CPU_new EXCEPT !.regs.a = a, !.regs.b = 1,
                                !.regs.h = hl \div 256, !.regs.l = hl % 256,
                                !.regs.f.zero = zero]
    /\ fault = NoFault
    /\ build \in Builds
    /\ obs = ObsNone

NextCPU == Step

SpecCPU == InitCPU /\ [][NextCPU]_vars

(***************************************************************************)
(* The MemoryBus used directly                                             *)
(***************************************************************************)
\* addresses at both ends of the 16-bit range, and a few byte values
BusAddresses == {0, 1, 32768, 65534, 65535}

BusBytes == {0, 1, 255}

BusRead(address) ==
    /\ Running
    /\ LET read == MemoryBus_read_byte(CPU, address)
       IN /\ fault' = read.fault
          /\ obs' = [op |-> "read_byte", address |-> address, value |-> read.value]
    /\ UNCHANGED <<lcd, interrupts, cpu, memory, build>>

BusWrite(address, byte) ==
    /\ Running
    /\ LET written == MemoryBus_write_byte(CPU, address, byte)
       IN /\ memory' = written.memory
          /\ fault' = written.fault
          /\ obs' = [op |-> "write_byte", address |-> address, value |-> byte]
    /\ UNCHANGED <<lcd, interrupts, cpu, build>>

InitBus ==
    /\ lcd = LCD_new
    /\ interrupts = Interrupts_new
    /\ cpu = CPU_new
    /\ memory = <<>>
    /\ fault = NoFault
    /\ build \in Builds
    /\ obs = ObsNone

NextBus ==
    \/ \E address \in BusAddresses : BusRead(address)
    \/ \E address \in BusAddresses, byte \in BusBytes : BusWrite(address, byte)

SpecBus == InitBus /\ [][NextBus]_vars

(***************************************************************************)
(* Claims about the MemoryBus and the CPU                                  *)
(***************************************************************************)
\* C2: read_byte and write_byte complete for every 16-bit address, 0xFFFF
\* included, and every byte: no call ends in a bounds failure.
C2_NoBoundsFailure ==
    obs.op \in {"read_byte", "write_byte"} => fault.kind # "bus_bounds"

\* the execution rules CPU::execute has
HasExecutionRule(i) ==
    \/ i.op = "ADD" /\ i.target = "B"
    \/ i.op = "LD" /\ i.load_type = "Byte" /\ i.source \in {"A", "D8", "HLI"}
          /\ i.target \in {"A", "HLI"}
    \/ i.op = "JP"

\* C6: a step whose decoded instruction has no execution rule ends in an
\* explicit fatal condition; it never returns normally.
C6_NoSilentNoop ==
    (obs.op = "step" /\ obs.instruction.op # "None" /\ ~HasExecutionRule(obs.instruction))
        => fault.kind = "todo"

\* what a reader takes from the description of an unknown instruction: after
\* 0x, more than two digits are cb and the byte, otherwise the byte alone
HexValue(digit) == CHOOSE n \in 0..15 : HexDigits[n + 1] = digit

RECURSIVE HexNumber(_)
HexNumber(digits) ==
    IF digits = <<>> THEN 0
    ELSE HexNumber(SubSeq(digits, 1, Len(digits) - 1)) * 16 + HexValue(digits[Len(digits)])

ReadDescription(msg) ==
    LET digits == SubSeq(msg, 3, Len(msg))
    IN IF Len(digits) > 2 /\ SubSeq(digits, 1, 2) = <<"c", "b">>
       THEN [byte |-> HexNumber(SubSeq(digits, 3, Len(digits))), prefixed |-> TRUE]
       ELSE [byte |-> HexNumber(digits), prefixed |-> FALSE]

\* C7: a step that fetches an opcode byte its table (base, or extended after
\* 0xCB) does not define ends in a fatal condition whose description gives
\* that byte and whether it was prefixed, with PC, SP, registers and bus as
\* they were; and nothing runs after a fatal condition.
C7_UnknownInstructionFatal ==
    [][LET fetched == CPU_fetch(CPU)
       IN /\ (Running /\ Ok(fetched)
                /\ Instruction_from_byte(fetched.byte, fetched.prefixed).op = "None")
             => /\ fault'.kind = "unknown_instruction"
                /\ ReadDescription(fault'.msg) =
                      [byte |-> fetched.byte, prefixed |-> fetched.prefixed]
                /\ cpu' = cpu /\ memory' = memory
          /\ ~Running => UNCHANGED vars]_vars

\* an undefined extended opcode was reported
C7_Witness ==
    /\ fault.kind = "unknown_instruction"
    /\ obs.op = "step" /\ obs.prefixed /\ obs.byte = 211
    /\ cpu.pc > 0

\* the byte a bus spanning all 16-bit addresses holds at an address taken
\* modulo 65536
ByteAt(address) == MemRead(memory, address % U16)

\* C15: whatever PC is, 0xFFFE and 0xFFFF included, a step fetches its
\* opcode and operands at PC, (PC+1) mod 65536 and (PC+2) mod 65536 and
\* leaves the next PC modulo 65536: no step ends in an overflow or a bounds
\* failure on an address derived from PC, LD A,d8 loads the byte at PC+1
\* and adds 2, ADD A,B adds 1, a jump taken goes to the address held at
\* PC+1 (low) and PC+2 (high), and a jump not taken adds 3.
C15_PCWraps ==
    [][obs'.op = "step" =>
        LET i == obs'.instruction
            uses_hl == obs'.fetched /\ i.op = "LD" /\ i.load_type = "Byte"
                          /\ (i.source = "HLI" \/ i.target = "HLI")
            taken == i.op = "JP" /\
                        CASE i.test = "NotZero" -> ~cpu.regs.f.zero
                          [] i.test = "NotCarry" -> ~cpu.regs.f.carry
                          [] i.test = "Zero" -> cpu.regs.f.zero
                          [] i.test = "Carry" -> cpu.regs.f.carry
                          [] i.test = "Always" -> TRUE
        IN /\ ~uses_hl => fault'.kind \notin {"overflow", "bus_bounds"}
           /\ (obs'.fetched /\ i.op = "ADD" /\ i.target = "B")
                 => cpu'.pc = (cpu.pc + 1) % U16
           /\ (obs'.fetched /\ i.op = "LD" /\ i.load_type = "Byte"
                    /\ i.source = "D8" /\ i.target = "A")
                 => (cpu'.regs.a = ByteAt(cpu.pc + 1) /\ cpu'.pc = (cpu.pc + 2) % U16)
           /\ (obs'.fetched /\ i.op = "JP" /\ taken)
                 => cpu'.pc = ByteAt(cpu.pc + 2) * 256 + ByteAt(cpu.pc + 1)
           /\ (obs'.fetched /\ i.op = "JP" /\ ~taken)
                 => cpu'.pc = (cpu.pc + 3) % U16]_vars

(***************************************************************************)
(* One jump executed at a program counter a program has reached            *)
(***************************************************************************)
\* 0xC2 JP NZ, 0xC3 JP, 0xCA JP Z, 0xD2 JP NC, 0xDA JP C
JumpOpcodes == {194, 195, 202, 210, 218}

\* the PC of the jump: the start of memory, the middle, and the last
\* addresses whose opcode can be fetched
JumpPCs == {0, 4660, 65532, 65533, 65534}

\* the operand bytes that follow the opcode
JumpOperands == {0, 52, 255}

\* memory with the jump's three bytes at pc, pc + 1 and pc + 2, as far as
\* the array reaches
JumpMemory(pc, opcode, low, high) ==
    LET bytes == (pc :> opcode) @@ ((pc + 1) :> low) @@ ((pc + 2) :> high)
    IN [i \in {j \in DOMAIN bytes : j < MEMORY_SIZE /\ bytes[j] # 0} |-> bytes[i]]

\* CPU::step, once
StepJP == obs.op = "none" /\ Step

InitJP ==
    /\ lcd = LCD_new
    /\ interrupts = Interrupts_new
    /\ \E pc \in JumpPCs, opcode \in JumpOpcodes, low \in JumpOperands,
          high \in JumpOperands, zero \in BOOLEAN, carry \in BOOLEAN :
          /\ memory = JumpMemory(pc, opcode, low, high)
          /\ cpu = [CPU_new EXCEPT !.pc = pc, !.sp = 57343, !.regs.a = 85,
                                   !.regs.f.zero = zero, !.regs.f.carry = carry]
    /\ fault = NoFault
    /\ build \in Builds
    /\ obs = ObsNone

NextJP == StepJP

SpecJP == InitJP /\ [][NextJP]_vars

\* C22: a step that executes JP with test NotZero, Zero, NotCarry, Carry or
\* Always leaves the next PC at the 16-bit value with low byte bus[PC+1]
\* and high byte bus[PC+2] when the test holds against the zero and carry
\* flags, and at PC+3 when it does not; registers, flags, SP and memory are
\* as they were.
C22_JumpSemantics ==
    [][(obs'.op = "step" /\ obs'.fetched /\ obs'.instruction.op = "JP") =>
        LET test == obs'.instruction.test
            holds == CASE test = "NotZero" -> ~cpu.regs.f.zero
                       [] test = "Zero" -> cpu.regs.f.zero
                       [] test = "NotCarry" -> ~cpu.regs.f.carry
                       [] test = "Carry" -> cpu.regs.f.carry
                       [] test = "Always" -> TRUE
        IN /\ fault'.kind = "none"
           /\ cpu'.pc = IF holds THEN ByteAt(cpu.pc + 2) * 256 + ByteAt(cpu.pc + 1)
                        ELSE (cpu.pc + 3) % U16
           /\ cpu'.regs = cpu.regs /\ cpu'.sp = cpu.sp /\ memory' = memory]_vars

(***************************************************************************)
(* One arithmetic instruction executed on registers a test has set         *)
(***************************************************************************)
\* cpu.execute(ADD A,B), called as the tests call it
ExecuteADD ==
    /\ Running /\ obs.op = "none"
    /\ LET executed == CPU_execute(CPU, [op |-> "ADD", target |-> "B"])
       IN /\ cpu' = executed.c.cpu
          /\ memory' = executed.c.memory
          /\ fault' = executed.c.fault
    /\ obs' = [op |-> "ADD"]
    /\ UNCHANGED <<lcd, interrupts, build>>

\* cpu.execute(ADC A,B)
ExecuteADC ==
    /\ Running /\ obs.op = "none"
    /\ LET added == CPU_adc(CPU, cpu.regs.b)
       IN /\ cpu' = [added.c.cpu EXCEPT !.regs.a = added.value]
          /\ fault' = added.c.fault
    /\ obs' = [op |-> "ADC"]
    /\ UNCHANGED <<lcd, interrupts, memory, build>>

\* every A, every B, every carry, and stale zero, subtract and half-carry
InitALU ==
    /\ lcd = LCD_new
    /\ interrupts = Interrupts_new
    /\ \E a \in Byte, b \in Byte, carry \in BOOLEAN, stale \in BOOLEAN :
          cpu = [CPU_new EXCEPT !.regs.a = a, !.regs.b = b,
                                !.regs.f = [zero |-> stale, subtract |-> stale,
                                            half_carry |-> stale, carry |-> carry]]
    /\ memory = <<>>
    /\ fault = NoFault
    /\ build \in Builds
    /\ obs = ObsNone

\* cpu.execute(SUB A,B)
ExecuteSUB ==
    /\ Running /\ obs.op = "none"
    /\ LET subtracted == CPU_sub(CPU, cpu.regs.b, 0)
       IN /\ cpu' = [subtracted.c.cpu EXCEPT !.regs.a = subtracted.value]
          /\ fault' = subtracted.c.fault
    /\ obs' = [op |-> "SUB"]
    /\ UNCHANGED <<lcd, interrupts, memory, build>>

\* cpu.execute(SBC A,B)
ExecuteSBC ==
    /\ Running /\ obs.op = "none"
    /\ LET subtracted == CPU_sub(CPU, cpu.regs.b, IF cpu.regs.f.carry THEN 1 ELSE 0)
       IN /\ cpu' = [subtracted.c.cpu EXCEPT !.regs.a = subtracted.value]
          /\ fault' = subtracted.c.fault
    /\ obs' = [op |-> "SBC"]
    /\ UNCHANGED <<lcd, interrupts, memory, build>>

NextALU == ExecuteADD \/ ExecuteADC \/ ExecuteSUB \/ ExecuteSBC

SpecALU == InitALU /\ [][NextALU]_vars

\* C10: ADD and ADC leave in A the sum (A + r + c) mod 256 of A, the operand
\* and the carry-in (0 for ADD, the carry flag for ADC), and write all four
\* flags: zero iff the new A is 0, subtract false, half-carry iff the low
\* nibbles and c sum above 0xF, carry iff the sum is above 0xFF.
C10_AddAdcFlags ==
    [][obs'.op \in {"ADD", "ADC"} =>
        LET A == cpu.regs.a
            r == cpu.regs.b
            c == IF obs'.op = "ADC" /\ cpu.regs.f.carry THEN 1 ELSE 0
        IN /\ fault'.kind = "none"
           /\ cpu'.regs.a = (A + r + c) % 256
           /\ cpu'.regs.f.zero = (cpu'.regs.a = 0)
           /\ cpu'.regs.f.subtract = FALSE
           /\ cpu'.regs.f.half_carry = ((A % 16) + (r % 16) + c > 15)
           /\ cpu'.regs.f.carry = (A + r + c > 255)
           /\ cpu'.regs.b = r]_vars

\* ADD A,B of 0xFF and 0x01 over stale flags: A = 0 with zero, half-carry
\* and carry set and subtract cleared
C10_Witness ==
    /\ obs.op = "ADD" /\ cpu.regs.a = 0 /\ cpu.regs.b = 1
    /\ cpu.regs.f = [zero |-> TRUE, subtract |-> FALSE, half_carry |-> TRUE,
                     carry |-> TRUE]

\* What the tests sub_with_carry, sub_with_half_carry and sbc_with_carry set
\* (A, B and the carry flag) and assert (A and the four flags)
SubtractionTests ==
    {[op |-> "SUB", a |-> 15, b |-> 128, carry_in |-> FALSE,
      new_a |-> 143, zero |-> FALSE, subtract |-> TRUE, half_carry |-> FALSE,
      carry |-> TRUE],
     [op |-> "SUB", a |-> 1, b |-> 15, carry_in |-> FALSE,
      new_a |-> 242, zero |-> FALSE, subtract |-> TRUE, half_carry |-> TRUE,
      carry |-> TRUE],
     [op |-> "SBC", a |-> 15, b |-> 127, carry_in |-> TRUE,
      new_a |-> 143, zero |-> FALSE, subtract |-> TRUE, half_carry |-> FALSE,
      carry |-> TRUE]}

\* C11: SUB and SBC leave in A the difference (A - r - c) mod 256 (c is 0 for
\* SUB, the carry flag for SBC) with subtract set, zero iff the new A is 0,
\* half-carry iff (A & 0xF) < (r & 0xF) + c and carry iff A < r + c; and on
\* the inputs of sub_with_carry, sub_with_half_carry and sbc_with_carry this
\* gives the A and the flags those tests assert.
C11_SubSbcFlags ==
    [][obs'.op \in {"SUB", "SBC"} =>
        LET A == cpu.regs.a
            r == cpu.regs.b
            c == IF obs'.op = "SBC" /\ cpu.regs.f.carry THEN 1 ELSE 0
        IN /\ fault'.kind = "none"
           /\ cpu'.regs.a = (A - r - c + 512) % 256
           /\ cpu'.regs.f.subtract = TRUE
           /\ cpu'.regs.f.zero = (cpu'.regs.a = 0)
           /\ cpu'.regs.f.half_carry = ((A % 16) < (r % 16) + c)
           /\ cpu'.regs.f.carry = (A < r + c)
           /\ \A t \in SubtractionTests :
                 (t.op = obs'.op /\ t.a = A /\ t.b = r /\ t.carry_in = cpu.regs.f.carry)
                    => /\ cpu'.regs.a = t.new_a
                       /\ cpu'.regs.f = [zero |-> t.zero, subtract |-> t.subtract,
                                         half_carry |-> t.half_carry,
                                         carry |-> t.carry]]_vars

(***************************************************************************)
(* The register pair AF read and written                                   *)
(***************************************************************************)
\* the A a test starts from
SetupAF == {0, 85, 255}

\* cpu.regs.get_af()
GetAF ==
    /\ Running /\ obs.op \in {"none", "set_af"}
    /\ obs' = [op |-> "get_af", value |-> Registers_get_af(cpu.regs)]
    /\ UNCHANGED <<lcd, interrupts, cpu, memory, fault, build>>

\* cpu.regs.set_af(value), for every 16-bit value
SetAF ==
    /\ Running /\ obs.op = "none"
    /\ \E value \in 0..(U16 - 1) :
          /\ cpu' = [cpu EXCEPT !.regs = Registers_set_af(@, value)]
          /\ obs' = [op |-> "set_af", value |-> value]
    /\ UNCHANGED <<lcd, interrupts, memory, fault, build>>

InitAF ==
    /\ lcd = LCD_new
    /\ interrupts = Interrupts_new
    /\ \E a \in SetupAF, f \in [zero : BOOLEAN, subtract : BOOLEAN,
                                 half_carry : BOOLEAN, carry : BOOLEAN] :
          cpu = [CPU_new EXCEPT !.regs.a = a, !.regs.f = f]
    /\ memory = <<>>
    /\ fault = NoFault
    /\ build \in Builds
    /\ obs = ObsNone

NextAF == GetAF \/ SetAF

SpecAF == InitAF /\ [][NextAF]_vars

\* C12: get_af returns A in the high byte and zero, subtract, half-carry and
\* carry in bits 7, 6, 5, 4 of the low byte, with bits 3..0 zero; set_af(v)
\* takes A and the four flags from those bits of v, and get_af after
\* set_af(v) returns v with its low nibble cleared.
C12_AFRoundTrip ==
    /\ [][obs'.op = "get_af" =>
            /\ obs'.value \div 256 = cpu.regs.a
            /\ Bit(obs'.value, 7) = cpu.regs.f.zero
            /\ Bit(obs'.value, 6) = cpu.regs.f.subtract
            /\ Bit(obs'.value, 5) = cpu.regs.f.half_carry
            /\ Bit(obs'.value, 4) = cpu.regs.f.carry
            /\ obs'.value % 16 = 0
            /\ obs.op = "set_af" => obs'.value = obs.value - (obs.value % 16)]_vars
    /\ [][obs'.op = "set_af" =>
            /\ cpu'.regs.a = obs'.value \div 256
            /\ cpu'.regs.f = [zero |-> Bit(obs'.value, 7),
                              subtract |-> Bit(obs'.value, 6),
                              half_carry |-> Bit(obs'.value, 5),
                              carry |-> Bit(obs'.value, 4)]]_vars

\* get_af after set_af(0x55AF) has returned 0x55A0
C12_Witness ==
    /\ obs = [op |-> "get_af", value |-> 21920]
    /\ cpu.regs.a = 85
    /\ cpu.regs.f = [zero |-> TRUE, subtract |-> FALSE, half_carry |-> TRUE,
                     carry |-> FALSE]

(***************************************************************************)
(* Interrupt controller and stack (specification sections 3 and 4.4)       *)
(***************************************************************************)
Interruptions == <<"VBlank", "LCDStat", "Timer", "Serial", "Joypad">>

\* the fixed service-routine address of each source: 0x40, 0x48, ..., 0x60
ServiceAddress(i) == 64 + 8 * InterruptBit(i)

BothBit(x, y, n) == IF Bit(x, n) /\ Bit(y, n) THEN 2 ^ n ELSE 0

\* x & y on bytes
BitAnd(x, y) ==
    BothBit(x, y, 0) + BothBit(x, y, 1) + BothBit(x, y, 2) + BothBit(x, y, 3)
        + BothBit(x, y, 4) + BothBit(x, y, 5) + BothBit(x, y, 6) + BothBit(x, y, 7)

\* The later CPU with its bus and the LCD behind it
Machine == [cpu |-> cpu, memory |-> memory, fault |-> fault, lcd |-> lcd]

\* the bus of the later CPU: every 16-bit address reads and writes; the
\* addresses of the LCD's registers go to the LCD, the rest to a flat array
MMU_read_byte(c, address) ==
    IF address \in LCDAddresses THEN LCD_read_byte(c, address)
    ELSE MemRead(c.memory, address)

MMU_write_byte(c, address, byte) ==
    IF address \in LCDAddresses THEN LCD_write_byte(c, address, byte)
    ELSE [c EXCEPT !.memory = MemWrite(@, address, byte)]

\* push with the two bytes exchanged: low byte at SP-1, high byte at SP-2
CPU_push_low_first(c, value) ==
    LET high_address == (c.cpu.sp + U16 - 1) % U16
        low_address == (c.cpu.sp + U16 - 2) % U16
        high_written == MMU_write_byte(c, high_address, value % 256)
        low_written == MMU_write_byte(high_written, low_address, value \div 256)
    IN [low_written EXCEPT !.cpu.sp = low_address]

\* push of a 16-bit value: high byte at SP-1, low byte at SP-2, SP -= 2
CPU_push(c, value) ==
    LET high_address == (c.cpu.sp + U16 - 1) % U16
        low_address == (c.cpu.sp + U16 - 2) % U16
        high_written == MMU_write_byte(c, high_address, value \div 256)
        low_written == MMU_write_byte(high_written, low_address, value % 256)
    IN [low_written EXCEPT !.cpu.sp = low_address]

\* pop: the inverse of push; the value popped and the CPU after it
CPU_pop(c) ==
    LET low == MMU_read_byte(c, c.cpu.sp)
        high == MMU_read_byte(c, (c.cpu.sp + 1) % U16)
    IN [c |-> [c EXCEPT !.cpu.sp = (@ + 2) % U16], value |-> high * 256 + low]

\* the interrupt check with the lowest-priority pending source served first
Interrupts_check_lowest_first(c, ints) ==
    LET pending == BitAnd(ints.enable, ints.request)
    IN IF ints.master /\ pending # 0
       THEN LET n == CHOOSE k \in 1..Len(Interruptions) :
                        /\ Bit(pending, InterruptBit(Interruptions[k]))
                        /\ \A j \in (k + 1)..Len(Interruptions) :
                              ~Bit(pending, InterruptBit(Interruptions[j]))
                source == Interruptions[n]
                pushed == CPU_push(c, c.cpu.pc)
            IN [c |-> [pushed EXCEPT !.cpu.pc = ServiceAddress(source)],
                interrupts |-> [ints EXCEPT !.request = ClearBit(@, InterruptBit(source)),
                                            !.master = FALSE]]
       ELSE [c |-> c, interrupts |-> ints]

\* the interrupt check of a CPU step: with master-enable set and a requested
\* source enabled, serve the first such source in priority order
Interrupts_check(c, ints) ==
    LET pending == BitAnd(ints.enable, ints.request)
    IN IF ints.master /\ pending # 0
       THEN LET n == CHOOSE k \in 1..Len(Interruptions) :
                        /\ Bit(pending, InterruptBit(Interruptions[k]))
                        /\ \A j \in 1..(k - 1) :
                              ~Bit(pending, InterruptBit(Interruptions[j]))
                source == Interruptions[n]
                pushed == CPU_push(c, c.cpu.pc)
            IN [c |-> [pushed EXCEPT !.cpu.pc = ServiceAddress(source)],
                interrupts |-> [ints EXCEPT !.request = ClearBit(@, InterruptBit(source)),
                                            !.master = FALSE]]
       ELSE [c |-> c, interrupts |-> ints]

\* Where a program's stack starts (0xDFFF in the tests, 0xFFFE after boot),
\* where it runs (0x1234), the enable masks it writes, and how deep
\* interrupt handlers nest before the model stops re-enabling.
StackTops == {57343, 65534}

StartPC == 4660

EnableMasks == {0, 31, 21, 10}

MaxNest == 1

Nesting == CHOOSE d \in 0..(MaxNest + 1) : \E top \in StackTops : cpu.sp + 2 * d = top

InterruptCheck ==
    /\ Running
    /\ LET checked == Interrupts_check(Machine, interrupts)
       IN /\ cpu' = checked.c.cpu
          /\ memory' = checked.c.memory
          /\ lcd' = checked.c.lcd
          /\ interrupts' = checked.interrupts
    /\ obs' = [op |-> "check"]
    /\ UNCHANGED <<fault, build>>

\* another subsystem raises a request
Request(i) ==
    /\ Running
    /\ interrupts' = Interrupts_turnon(GB, i).interrupts
    /\ obs' = [op |-> "request"]
    /\ UNCHANGED <<lcd, cpu, memory, fault, build>>

\* a write to the interrupt-enable register (0xFFFF)
WriteEnable(mask) ==
    /\ Running
    /\ interrupts' = [interrupts EXCEPT !.enable = mask]
    /\ obs' = [op |-> "enable"]
    /\ UNCHANGED <<lcd, cpu, memory, fault, build>>

\* master-enable set (EI) or cleared (DI)
SetMaster(on) ==
    /\ Running
    /\ on => Nesting < MaxNest
    /\ interrupts' = [interrupts EXCEPT !.master = on]
    /\ obs' = [op |-> "master"]
    /\ UNCHANGED <<lcd, cpu, memory, fault, build>>

\* the handler returns: PC is popped from the stack
Return ==
    /\ Running
    /\ Nesting > 0
    /\ LET popped == CPU_pop(Machine)
       IN /\ cpu' = [popped.c.cpu EXCEPT !.pc = popped.value]
          /\ memory' = popped.c.memory
    /\ obs' = [op |-> "return"]
    /\ UNCHANGED <<lcd, interrupts, fault, build>>

InitInt ==
    /\ lcd = LCD_new
    /\ interrupts = Interrupts_new
    /\ \E top \in StackTops : cpu = [CPU_new EXCEPT !.pc = StartPC, !.sp = top]
    /\ memory = <<>>
    /\ fault = NoFault
    /\ build \in Builds
    /\ obs = ObsNone

NextInt ==
    \/ InterruptCheck
    \/ \E k \in 1..Len(Interruptions) : Request(Interruptions[k])
    \/ \E mask \in EnableMasks : WriteEnable(mask)
    \/ \E on \in BOOLEAN : SetMaster(on)
    \/ Return

SpecInt == InitInt /\ [][NextInt]_vars

\* The LCD's ticks interleaved with the interrupt check. Ticks of 204 or 456
\* cycles end the period of every mode but VBlank at once, and VBlank's
\* within three ticks.
LineCycles == {CLOCKS_HBLANK, CLOCKS_VBLANK}

LCDEnableMasks == {0, 1}

NextIntLCD ==
    \/ \E cycles \in LineCycles : Tick(cycles)
    \/ InterruptCheck
    \/ \E mask \in LCDEnableMasks : WriteEnable(mask)
    \/ \E on \in BOOLEAN : SetMaster(on)
    \/ Return

SpecIntLCD == InitInt /\ [][NextIntLCD]_vars

(***************************************************************************)
(* Claims about interrupt dispatch                                         *)
(***************************************************************************)
PendingEnabled(ints, i) ==
    Bit(ints.enable, InterruptBit(i)) /\ Bit(ints.request, InterruptBit(i))

C9_LatchedWhileDisabled ==
    [][/\ (obs'.op = "check" /\ ~interrupts.master)
            => (cpu' = cpu /\ memory' = memory /\ interrupts' = interrupts)
       /\ (obs'.op = "tick" /\ lcd.mode # "VBlank" /\ lcd'.mode = "VBlank")
            => VBlankRequested'
       /\ (VBlankRequested /\ ~VBlankRequested')
            => (obs'.op = "check" /\ interrupts.master
                  /\ cpu'.pc = ServiceAddress("VBlank"))]_vars

\* the check ran with VBlank requested by the LCD and enabled, but
\* master-enable clear: the request is still set and PC where it was
C9_Witness ==
    /\ obs.op = "check" /\ ~interrupts.master
    /\ VBlankRequested /\ Bit(interrupts.enable, 0)
    /\ lcd.mode = "VBlank" /\ cpu.pc = StartPC /\ cpu.sp \in StackTops

(***************************************************************************)
(* Push and pop of a register pair (specification sections 3 and 4.1)      *)
(***************************************************************************)
StackTargets == {"AF", "BC", "DE", "HL"}

\* the 16-bit value of a register pair, the first register the high byte
Registers_get(regs, target) ==
    CASE target = "AF" -> Registers_get_af(regs)
      [] target = "BC" -> regs.b * 256 + regs.c
      [] target = "DE" -> regs.d * 256 + regs.e
      [] target = "HL" -> Registers_get_hl(regs)

Registers_set(regs, target, value) ==
    CASE target = "AF" -> Registers_set_af(regs, value)
      [] target = "BC" -> [regs EXCEPT !.b = value \div 256, !.c = value % 256]
      [] target = "DE" -> [regs EXCEPT !.d = value \div 256, !.e = value % 256]
      [] target = "HL" -> [regs EXCEPT !.h = value \div 256, !.l = value % 256]

\* cpu.push(target)
CPU_push_target(c, target) == CPU_push(c, Registers_get(c.cpu.regs, target))

\* cpu.pop(target)
CPU_pop_target(c, target) ==
    LET popped == CPU_pop(c)
    IN [popped.c EXCEPT !.cpu.regs = Registers_set(@, target, popped.value)]

\* Stack pointers: 0xDFFF as in the tests, the ends of the address space
\* (0, 1, 2, 0xFFFE, 0xFFFF), and two that put the pushed bytes on the LCD's
\* registers (0xFF46: 0xFF45 and LY; 0xFF49: 0xFF48 and the palette).
StackPointers == {0, 1, 2, 57343, 65350, 65353, 65534, 65535}

\* the values of the pairs: 0x5550 as in the tests, 0, 0x1234, 0x00FF, 0xFFFF
PairValues == {0, 21840, 4660, 255, 65535}

Push(target) ==
    /\ Running /\ obs.op = "none"
    /\ LET pushed == CPU_push_target(Machine, target)
       IN /\ cpu' = pushed.cpu
          /\ memory' = pushed.memory
          /\ lcd' = pushed.lcd
    /\ obs' = [op |-> "push", target |-> target,
               value |-> Registers_get(cpu.regs, target), sp |-> cpu.sp]
    /\ UNCHANGED <<interrupts, fault, build>>

\* a pop that immediately follows a push
Pop(target) ==
    /\ Running /\ obs.op = "push"
    /\ LET popped == CPU_pop_target(Machine, target)
       IN /\ cpu' = popped.cpu
          /\ memory' = popped.memory
          /\ lcd' = popped.lcd
    /\ obs' = [op |-> "pop", target |-> target, value |-> obs.value, sp |-> obs.sp]
    /\ UNCHANGED <<interrupts, fault, build>>

InitStack ==
    /\ lcd = LCD_new
    /\ interrupts = Interrupts_new
    /\ \E sp \in StackPointers, bc \in PairValues, others \in PairValues :
          cpu = [CPU_new EXCEPT
                    !.sp = sp,
                    !.regs = Registers_set(Registers_set(Registers_set(Registers_set(@,
                                "AF", others), "DE", others), "HL", others), "BC", bc)]
    /\ memory = <<>>
    /\ fault = NoFault
    /\ build \in Builds
    /\ obs = ObsNone

NextStack ==
    \/ \E target \in StackTargets : Push(target)
    \/ \E target \in StackTargets : Pop(target)

SpecStack == InitStack /\ [][NextStack]_vars

\* what push is to have done, read from the two states of a push step
PushDone ==
    /\ cpu'.sp = (cpu.sp + U16 - 2) % U16
    /\ MMU_read_byte([cpu |-> cpu', memory |-> memory', fault |-> fault', lcd |-> lcd'],
                     (cpu.sp + U16 - 1) % U16) = obs'.value \div 256
    /\ MMU_read_byte([cpu |-> cpu', memory |-> memory', fault |-> fault', lcd |-> lcd'],
                     (cpu.sp + U16 - 2) % U16) = obs'.value % 256

\* C13 as stated: for any SP and any pair value v, after push the high byte
\* of v is at SP-1, the low byte at SP-2 and SP is less by 2; a pop right
\* after it, into any pair, leaves exactly v in that pair and SP as it was
\* before the push.
C13_Original ==
    /\ [][obs'.op = "push" => PushDone]_vars
    /\ [][obs'.op = "pop" =>
            /\ Registers_get(cpu'.regs, obs'.target) = obs'.value
            /\ cpu'.sp = obs'.sp]_vars

\* neither SP-1 nor SP-2 is an address of an LCD register
StackInMemory(sp) ==
    /\ (sp + U16 - 1) % U16 \notin LCDAddresses
    /\ (sp + U16 - 2) % U16 \notin LCDAddresses

\* C13 as amended: push always leaves SP less by 2 (mod 65536) and the pop
\* after it restores SP; when SP-1 and SP-2 are not addresses of LCD
\* registers, the high byte of v is at SP-1 and the low byte at SP-2 after
\* the push, and the pop leaves exactly v in BC, DE or HL, and v with its low
\* nibble cleared in AF.
C13_Amended ==
    /\ [][obs'.op = "push" =>
            /\ cpu'.sp = (cpu.sp + U16 - 2) % U16
            /\ StackInMemory(cpu.sp) => PushDone]_vars
    /\ [][obs'.op = "pop" =>
            /\ cpu'.sp = obs'.sp
            /\ StackInMemory(obs'.sp) =>
                    Registers_get(cpu'.regs, obs'.target) =
                        (IF obs'.target = "AF" THEN obs'.value - (obs'.value % 16)
                         ELSE obs'.value)]_vars

\* BC = 0x5550 was pushed at SP = 0xDFFF and popped into HL: HL is 0x5550,
\* SP is 0xDFFF again, 0x55 lies at 0xDFFE and 0x50 at 0xDFFD
C13_Witness ==
    /\ obs = [op |-> "pop", target |-> "HL", value |-> 21840, sp |-> 57343]
    /\ Registers_get(cpu.regs, "HL") = 21840 /\ Registers_get(cpu.regs, "BC") = 21840
    /\ cpu.sp = 57343
    /\ MemRead(memory, 57342) = 85 /\ MemRead(memory, 57341) = 80

====
